---- MODULE Spec2Model ----
(***************************************************************************)
(* A model of folder2print.py: the watch-folder-to-printer pipeline.       *)
(*                                                                         *)
(* Strings the program inspects (file names, extensions, folder names,     *)
(* paths) are sequences of one-character strings, so that splitext, lower, *)
(* the glob suffix match and the substring test are computed as the code   *)
(* computes them.  The program targets Windows (win32print, win32api):     *)
(* pathlib's glob is modelled with Windows' case-insensitive matching.     *)
(***************************************************************************)
EXTENDS Integers, Sequences, FiniteSets, TLC

(***************************************************************************)
(* Bounds of the model.                                                    *)
(***************************************************************************)
\* loop iterations of is_file_ready before its timeout is exhausted
MaxPolls == 2
\* largest file size (a file grows by one unit per write)
MaxSize == 1
\* files and folders that other programs put into the watch folder
MaxArrivals == 2
\* the wall clock, in seconds, runs from 0 to MaxClock
MaxClock == 1

(***************************************************************************)
(* Characters and strings.                                                 *)
(***************************************************************************)
Sep == "/"

\* str.lower on one character of the model's alphabet
LowerChar(c) == IF c = "P" THEN "p" ELSE IF c = "T" THEN "t" ELSE c

\* str.lower
Lower(s) == [i \in 1..Len(s) |-> LowerChar(s[i])]

\* `sub in s` for Python strings
Contains(s, sub) ==
    \E i \in 0..(Len(s) - Len(sub)) : SubSeq(s, i + 1, i + Len(sub)) = sub

\* the largest index of character c in s, 0 when there is none (str.rfind)
RFind(s, c) ==
    LET hits == {i \in 1..Len(s) : s[i] = c}
    IN  IF hits = {} THEN 0 ELSE CHOOSE i \in hits : \A j \in hits : j <= i

\* os.path.join / Path.__truediv__ of a folder and a name
JoinPath(dir, name) == dir \o <<Sep>> \o name

\* os.path.basename
Basename(path) == SubSeq(path, RFind(path, Sep) + 1, Len(path))

\* os.path.splitext: the extension starts at the last dot that follows the
\* last separator, unless only dots lie between the separator and that dot
Splitext(path) ==
    LET sepIndex == RFind(path, Sep)
        dotIndex == RFind(path, ".")
        hasExt   == /\ dotIndex > sepIndex
                    /\ \E k \in (sepIndex + 1)..(dotIndex - 1) : path[k] # "."
    IN  IF hasExt
        THEN [root |-> SubSeq(path, 1, dotIndex - 1),
              ext  |-> SubSeq(path, dotIndex, Len(path))]
        ELSE [root |-> path, ext |-> <<>>]

\* Strftime with the seconds left out of the format
StrftimeNoSeconds(clock) == <<"0">>

\* datetime.now().strftime("%Y%m%d_%H%M%S"): one stamp per second of the clock
Strftime(clock) == <<ToString(clock)>>

(***************************************************************************)
(* The names that can appear in the watch folder.                          *)
(***************************************************************************)
FileNames == { <<"a", ".", "p">>,          \* a.p   a plain document
               <<"x", "a", ".", "P">>,     \* xa.P  upper-case extension
               <<".", "p">>,               \* .p    a dot file
               <<"a", ".", "t">> }         \* a.t   another file type
DirNames == { <<"d", ".", "p">> }          \* d.p   a sub-folder
Names == FileNames \cup DirNames

Printers == {"HP", "PDF"}
NoPrinter == "none"

(***************************************************************************)
(* Config, lines 37-72.  The delays are seconds, 0 meaning no sleep.       *)
(***************************************************************************)
\* two installations: how jobs are printed, how long the pipeline waits, and
\* what the archive folder is called
Profiles ==
    { [print_method |-> "acrobat", printer_name |-> "HP",
       print_delay_seconds |-> 2, move_delete_delay_seconds |-> 60,
       printed_folder |-> <<"x">>],
      [print_method |-> "shellexecute", printer_name |-> "",
       print_delay_seconds |-> 0, move_delete_delay_seconds |-> 0,
       printed_folder |-> <<"y">>] }
ExtLists == { << <<".", "p">> >>, << <<".", "p">>, <<".", "P">> >> }

MakeConfig(exts, del, mov, pr) ==
    [watch_folder |-> <<"w">>,
     file_extensions |-> exts,
     delete_after_print |-> del,
     move_after_print |-> mov,
     printed_folder |-> pr.printed_folder,
     print_delay_seconds |-> pr.print_delay_seconds,
     move_delete_delay_seconds |-> pr.move_delete_delay_seconds,
     print_method |-> pr.print_method,
     printer_name |-> pr.printer_name]

Configs ==
    { MakeConfig(e, del, mov, pr) :
      e \in ExtLists, del \in BOOLEAN, mov \in BOOLEAN, pr \in Profiles }

VARIABLES
    config,            \* the loaded Config
    files,             \* the watch folder: name -> [kind, size]
    archive,           \* the printed folder: which file lies under which path
    now,               \* the latest reading of the wall clock, in seconds
    arrivals,          \* how many entries other programs have put into the folder
    processed_files,   \* PDFHandler.processed_files
    queue,             \* creation events the observer has not yet dispatched
    observer_started,  \* observer.start() has been called
    main_pc,           \* where the main thread is
    scan_i,            \* process_existing_files: index of the current extension
    scan_globbed,      \* process_existing_files: the glob of scan_i was listed
    scan_list,         \* process_existing_files: names of that glob still to visit
    run,               \* per thread: the process_file call it is in
    printed_ok,        \* paths for which print_pdf has returned True
    submitted,         \* the files (by arrival number) handed to print_pdf
    disp,              \* the last call of print_pdf and the system default printer
    resolve_failed,    \* paths whose remove or move in handle_after_print failed
    boot               \* main before the pipeline: what it finds at startup

vars == <<config, files, archive, now, arrivals, processed_files, queue, observer_started,
          main_pc, scan_i, scan_globbed, scan_list, run, printed_ok, submitted,
          disp, resolve_failed, boot>>

Threads == {"main", "observer"}

\* an entry of the watch folder: a file or a folder, its size, and the number
\* of the arrival that put it there
NoFile == [kind |-> "none", size |-> 0, id |-> 0]

\* a thread's call of process_file: where it is (pc), its file_path, the loop
\* count and size1 of is_file_ready and what it returned (ready), success,
\* and for the record the steps taken, processed_files at the call (pre) and
\* how the call ended (outcome)
IdleRun == [pc |-> "idle", path |-> <<>>, polls |-> 0, size1 |-> 0,
            ready |-> "pending", success |-> FALSE, steps |-> <<>>, pre |-> {},
            outcome |-> "none"]

\* no call of the dispatcher yet
IdleDisp == [called |-> FALSE, after |-> NoPrinter]

\* Config.__init__, lines 40-52: the values before load
DefaultConfig ==
    [watch_folder |-> <<>>,
     file_extensions |-> << <<".", "p">> >>,
     delete_after_print |-> FALSE,
     move_after_print |-> TRUE,
     printed_folder |-> <<"x">>,
     print_delay_seconds |-> 2,
     move_delete_delay_seconds |-> 60,
     print_method |-> "acrobat",
     printer_name |-> ""]

\* what a configuration file can hold: a watch folder or none, either print
\* method
StartupConfigs ==
    { [c EXCEPT !.watch_folder = w] :
      c \in {d \in Configs : /\ Len(d.file_extensions) = 1
                              /\ ~d.delete_after_print
                              /\ d.move_after_print},
      w \in {<<>>, <<"w">>} }

\* what main finds at startup, lines 474-486: the configuration file
\* (missing, not JSON, or holding data), whether watch_folder is a
\* directory, acrobat_path after the auto-detection of lines 74-76 ("" when
\* none was configured or found) and whether it is a file
Boots ==
    { b \in [config_file : {"missing", "invalid", "ok"}, data : StartupConfigs,
             watch_isdir : BOOLEAN, acrobat_path : {"", "exe"},
             acrobat_isfile : BOOLEAN] :
        /\ b.data.watch_folder = <<>> => ~b.watch_isdir
        /\ b.acrobat_path = "" => ~b.acrobat_isfile }

\* a startup that has passed Config.load and Config.validate with cfg
BootedUp(cfg) ==
    [config_file |-> "ok", data |-> cfg, watch_isdir |-> TRUE,
     acrobat_path |-> "exe", acrobat_isfile |-> TRUE]

(***************************************************************************)
(* The Print Dispatcher, lines 167-299.                                    *)
(*                                                                         *)
(* What the operating system answers is an input of a call: whether the    *)
(* file exists, whether acrobat_path is a file, the system default printer *)
(* d (NoPrinter when there is none), and in `o` which of the calls into    *)
(* the system raise when they are made.                                    *)
(***************************************************************************)
Defaults == Printers \cup {NoPrinter}

Oracles == [popen_raises : BOOLEAN, setdef_raises : BOOLEAN,
            shell_raises : BOOLEAN, restore_raises : BOOLEAN]

\* get_default_printer: GetDefaultPrinter raises when there is no default
\* printer, and the function then returns None
get_default_printer(d) == d

\* the result of a dispatcher call: the boolean returned (ret) unless an
\* exception left the function (raised), the printer the job was sent to,
\* the system default printer afterwards, whether restoring it failed
DispatchResult(ret, raised, used, after, restore_failed) ==
    [ret |-> ret, raised |-> raised, used |-> used, after |-> after,
     restore_failed |-> restore_failed]

\* print_pdf_acrobat with its try/except left out: a failing Popen propagates
print_pdf_acrobat_uncaught(file_exists, printer_name, acrobat_isfile, d, o) ==
    LET default == get_default_printer(d)
        target  == IF printer_name = "" THEN default ELSE printer_name
    IN  IF ~file_exists THEN DispatchResult(FALSE, FALSE, NoPrinter, d, FALSE)
        ELSE IF ~acrobat_isfile THEN DispatchResult(FALSE, FALSE, NoPrinter, d, FALSE)
        ELSE IF printer_name = "" /\ default = NoPrinter
             THEN DispatchResult(FALSE, FALSE, NoPrinter, d, FALSE)
        ELSE IF o.popen_raises THEN DispatchResult(FALSE, TRUE, NoPrinter, d, FALSE)
        ELSE DispatchResult(TRUE, FALSE, target, d, FALSE)

\* print_pdf_acrobat, lines 176-232
print_pdf_acrobat(file_exists, printer_name, acrobat_isfile, d, o) ==
    LET default == get_default_printer(d)
        target  == IF printer_name = "" THEN default ELSE printer_name
    IN  IF ~file_exists THEN DispatchResult(FALSE, FALSE, NoPrinter, d, FALSE)
        ELSE IF ~acrobat_isfile THEN DispatchResult(FALSE, FALSE, NoPrinter, d, FALSE)
        ELSE IF printer_name = "" /\ default = NoPrinter
             THEN DispatchResult(FALSE, FALSE, NoPrinter, d, FALSE)
        \* subprocess.Popen raises: except Exception, return False
        ELSE IF o.popen_raises THEN DispatchResult(FALSE, FALSE, NoPrinter, d, FALSE)
        ELSE DispatchResult(TRUE, FALSE, target, d, FALSE)

\* print_pdf_shellexecute without its finally block: the default printer is
\* left as SetDefaultPrinter(printer_name) set it
print_pdf_shellexecute_norestore(file_exists, printer_name, d, o) ==
    LET default == get_default_printer(d)
        target  == IF printer_name = "" THEN default ELSE printer_name
        d1      == IF o.setdef_raises THEN d ELSE target
        printed == ~o.setdef_raises /\ ~o.shell_raises
    IN  IF ~file_exists THEN DispatchResult(FALSE, FALSE, NoPrinter, d, FALSE)
        ELSE IF printer_name = "" /\ default = NoPrinter
             THEN DispatchResult(FALSE, FALSE, NoPrinter, d, FALSE)
        ELSE DispatchResult(printed, FALSE,
                            IF printed THEN target ELSE NoPrinter, d1, FALSE)

\* print_pdf_shellexecute, lines 235-287
print_pdf_shellexecute(file_exists, printer_name, d, o) ==
    LET default  == get_default_printer(d)
        target   == IF printer_name = "" THEN default ELSE printer_name
        \* line 257
        original_printer == get_default_printer(d)
        \* line 261: SetDefaultPrinter(printer_name), unless it raises
        d1       == IF o.setdef_raises THEN d ELSE target
        \* lines 265-275: ShellExecute is reached and does not raise
        printed  == ~o.setdef_raises /\ ~o.shell_raises
        \* lines 277-283: finally
        restores == original_printer # NoPrinter /\ original_printer # target
        d2       == IF restores /\ ~o.restore_raises THEN original_printer ELSE d1
    IN  IF ~file_exists THEN DispatchResult(FALSE, FALSE, NoPrinter, d, FALSE)
        ELSE IF printer_name = "" /\ default = NoPrinter
             THEN DispatchResult(FALSE, FALSE, NoPrinter, d, FALSE)
        \* an exception of the inner try reaches except Exception: return False
        ELSE DispatchResult(printed, FALSE,
                            IF printed THEN target ELSE NoPrinter, d2,
                            restores /\ o.restore_raises)

\* print_pdf, lines 290-299
print_pdf(file_exists, cfg, acrobat_isfile, d, o) ==
    IF cfg.print_method = "acrobat"
    THEN print_pdf_acrobat(file_exists, cfg.printer_name, acrobat_isfile, d, o)
    ELSE print_pdf_shellexecute(file_exists, cfg.printer_name, d, o)

(***************************************************************************)
(* Recognition of a file, live and at startup.                             *)
(***************************************************************************)
\* lines 346-350: the lower-cased extension is one of the lower-cased
\* configured extensions
Recognized(cfg, path) ==
    \E i \in 1..Len(cfg.file_extensions) :
        Lower(Splitext(path).ext) = Lower(cfg.file_extensions[i])

\* lines 340-357: what on_created does with an event
OnCreatedDecision(cfg, processed, event) ==
    IF event.is_directory THEN "directory"
    ELSE IF ~Recognized(cfg, event.src_path) THEN "unrecognized"
    ELSE IF event.src_path \in processed THEN "duplicate"
    ELSE "process"

\* the pattern "*" + ext of line 429 against a name: the name ends with ext,
\* letter case ignored as pathlib does on Windows
GlobMatch(ext, name) ==
    /\ Len(name) >= Len(ext)
    /\ Lower(SubSeq(name, Len(name) - Len(ext) + 1, Len(name))) = Lower(ext)

\* watch_path.glob("*" + ext), line 429: the entries directly in the folder
Glob(fs, ext) == {n \in Names : fs[n].kind # "none" /\ GlobMatch(ext, n)}

\* lines 430-433: a globbed entry is handed to process_file
ScanAccepts(cfg, fs, name) ==
    /\ fs[name].kind = "file"
    /\ ~Contains(JoinPath(cfg.watch_folder, name), cfg.printed_folder)

(***************************************************************************)
(* The Post-Print Resolver, lines 394-419: the folder and the archive      *)
(* afterwards, and whether the except branch logged an error.  op_raises:  *)
(* the operating system refuses the remove or the move (a locked file).    *)
(***************************************************************************)
ArchivePath(cfg, clock, path) ==
    LET printed_dir  == JoinPath(cfg.watch_folder, cfg.printed_folder)
        filename     == Basename(path)
        parts        == Splitext(filename)
        new_filename == parts.root \o <<"_">> \o Strftime(clock) \o parts.ext
    IN  JoinPath(printed_dir, new_filename)

\* shutil.move(file_path, new_path), line 415: the file lies under new_path,
\* in the place of whatever lay there
Moved(arch, new_path, id) ==
    {e \in arch : e.path # new_path} \cup {[path |-> new_path, id |-> id]}

\* handle_after_print with the two branches in the other order: a file is
\* moved although delete_after_print is set
handle_after_print_move_first(cfg, fs, arch, clock, path, op_raises) ==
    LET name == Basename(path)
        done == fs[name].kind = "file" /\ ~op_raises
    IN  IF cfg.move_after_print
        THEN IF done
             THEN [files |-> [fs EXCEPT ![name] = NoFile],
                   archive |-> Moved(arch, ArchivePath(cfg, clock, path), fs[name].id),
                   failed |-> FALSE]
             ELSE [files |-> fs, archive |-> arch, failed |-> TRUE]
        ELSE IF cfg.delete_after_print
        THEN IF done
             THEN [files |-> [fs EXCEPT ![name] = NoFile], archive |-> arch,
                   failed |-> FALSE]
             ELSE [files |-> fs, archive |-> arch, failed |-> TRUE]
        ELSE [files |-> fs, archive |-> arch, failed |-> FALSE]

handle_after_print(cfg, fs, arch, clock, path, op_raises) ==
    LET name == Basename(path)
        done == fs[name].kind = "file" /\ ~op_raises
    IN  IF cfg.delete_after_print
        THEN IF done
             THEN [files |-> [fs EXCEPT ![name] = NoFile], archive |-> arch,
                   failed |-> FALSE]
             ELSE [files |-> fs, archive |-> arch, failed |-> TRUE]
        ELSE IF cfg.move_after_print
        THEN IF done
             THEN [files |-> [fs EXCEPT ![name] = NoFile],
                   archive |-> Moved(arch, ArchivePath(cfg, clock, path), fs[name].id),
                   failed |-> FALSE]
             ELSE [files |-> fs, archive |-> arch, failed |-> TRUE]
        ELSE [files |-> fs, archive |-> arch, failed |-> FALSE]

(***************************************************************************)
(* process_file, lines 359-392, run by thread t.  Every sleep and every    *)
(* call into the system ends a step: the folder can change in between.     *)
(***************************************************************************)
FileOf(path) == files[Basename(path)]

Log(r, step) == [r EXCEPT !.steps = Append(@, step)]

\* line 357 or 436: the call
StartRun(t, path) ==
    run' = [run EXCEPT ![t] = [IdleRun EXCEPT !.pc = "ready", !.path = path,
                                              !.pre = processed_files]]

\* where process_file goes on once the file is ready, lines 369-374
AfterReady(cfg) == IF cfg.print_delay_seconds > 0 THEN "settle" ELSE "mark"

\* ReadyOpen with lines 365-367 left out: process_file goes on although
\* is_file_ready returned False
ReadyOpenUnchecked(t) ==
    /\ run[t].pc = "ready"
    /\ \E open_raises \in BOOLEAN :
         LET r == run[t]
             f == FileOf(r.path)
         IN  run' = [run EXCEPT ![t] =
                 IF r.polls >= MaxPolls
                 THEN [r EXCEPT !.pc = AfterReady(config), !.ready = "no"]
                 ELSE IF f.kind # "file" \/ open_raises
                 THEN [r EXCEPT !.polls = @ + 1]
                 ELSE [r EXCEPT !.pc = "ready_sleep", !.size1 = f.size]]
    /\ UNCHANGED <<config, files, archive, now, arrivals, processed_files, queue,
                   observer_started, main_pc, scan_i, scan_globbed, scan_list,
                   printed_ok, submitted, disp,
                   resolve_failed, boot>>

\* is_file_ready, lines 310-316 and 325-330: the loop test, open and read,
\* the first size; lines 365-367 when the timeout is exhausted
ReadyOpen(t) ==
    /\ run[t].pc = "ready"
    /\ \E open_raises \in BOOLEAN :
         LET r == run[t]
             f == FileOf(r.path)
         IN  run' = [run EXCEPT ![t] =
                 IF r.polls >= MaxPolls
                 THEN [Log(r, "not_ready") EXCEPT !.pc = "ret", !.ready = "no",
                                                  !.outcome = "not_ready"]
                 ELSE IF f.kind # "file" \/ open_raises
                 THEN [r EXCEPT !.polls = @ + 1]
                 ELSE [r EXCEPT !.pc = "ready_sleep", !.size1 = f.size]]
    /\ UNCHANGED <<config, files, archive, now, arrivals, processed_files, queue,
                   observer_started, main_pc, scan_i, scan_globbed, scan_list,
                   printed_ok, submitted, disp,
                   resolve_failed, boot>>

\* is_file_ready, lines 319-328: the second size after the sleep
ReadySize(t) ==
    /\ run[t].pc = "ready_sleep"
    /\ LET r == run[t]
           f == FileOf(r.path)
       IN  run' = [run EXCEPT ![t] =
               IF f.kind = "file" /\ r.size1 = f.size /\ r.size1 > 0
               THEN [r EXCEPT !.pc = AfterReady(config), !.size1 = 0,
                              !.ready = "yes"]
               ELSE [r EXCEPT !.pc = "ready", !.size1 = 0, !.polls = @ + 1]]
    /\ UNCHANGED <<config, files, archive, now, arrivals, processed_files, queue,
                   observer_started, main_pc, scan_i, scan_globbed, scan_list,
                   printed_ok, submitted, disp,
                   resolve_failed, boot>>

\* lines 370-371: the settle delay
SettleDelay(t) ==
    /\ run[t].pc = "settle"
    /\ run' = [run EXCEPT ![t] = [Log(@, "settle") EXCEPT !.pc = "mark"]]
    /\ UNCHANGED <<config, files, archive, now, arrivals, processed_files, queue,
                   observer_started, main_pc, scan_i, scan_globbed, scan_list,
                   printed_ok, submitted, disp,
                   resolve_failed, boot>>

\* MarkProcessed with line 374 moved behind the print: the path is not yet
\* in processed_files when print_pdf is called
MarkProcessedLate(t) ==
    /\ run[t].pc = "mark"
    /\ run' = [run EXCEPT ![t] = [Log(@, "mark") EXCEPT !.pc = "print"]]
    /\ UNCHANGED <<config, files, archive, now, arrivals, processed_files, queue,
                   observer_started, main_pc, scan_i, scan_globbed, scan_list,
                   printed_ok, submitted, disp,
                   resolve_failed, boot>>

\* line 374
MarkProcessed(t) ==
    /\ run[t].pc = "mark"
    /\ processed_files' = processed_files \cup {run[t].path}
    /\ run' = [run EXCEPT ![t] = [Log(@, "mark") EXCEPT !.pc = "print"]]
    /\ UNCHANGED <<config, files, archive, now, arrivals, queue, observer_started,
                   main_pc, scan_i, scan_globbed, scan_list, printed_ok, submitted, disp,
                   resolve_failed, boot>>

\* AfterPrint with lines 380-381 left out: no delay after the print
AfterPrintNoDelay(cfg) == "after"

\* where process_file goes on after print_pdf, lines 379-383
AfterPrint(cfg) == IF cfg.move_delete_delay_seconds > 0 THEN "post_delay" ELSE "after"

\* what a call of print_pdf can come to, over every answer of the system
PrintResults(file_exists, cfg) ==
    { print_pdf(file_exists, cfg, acrobat_isfile, d, o) :
      acrobat_isfile \in BOOLEAN, d \in Defaults, o \in Oracles }

\* line 377, and lines 390-392 should print_pdf raise
Dispatch(t) ==
    /\ run[t].pc = "print"
    /\ \E res \in PrintResults(FileOf(run[t].path).kind # "none", config) :
         LET r == run[t]
         IN  IF res.raised
             THEN /\ run' = [run EXCEPT ![t] =
                        [Log(Log(r, "print"), "error") EXCEPT
                             !.pc = "ret", !.outcome = "error"]]
                  /\ processed_files' = processed_files \ {r.path}
                  /\ UNCHANGED printed_ok
             ELSE /\ run' = [run EXCEPT ![t] =
                        [Log(r, "print") EXCEPT
                             !.pc = AfterPrint(config), !.success = res.ret]]
                  /\ printed_ok' = IF res.ret THEN printed_ok \cup {r.path}
                                   ELSE printed_ok
                  /\ UNCHANGED processed_files
    /\ submitted' = IF FileOf(run[t].path).kind = "file"
                     THEN submitted \cup {FileOf(run[t].path).id} ELSE submitted
    /\ UNCHANGED <<config, files, archive, now, arrivals, queue, observer_started,
                   main_pc, scan_i, scan_globbed, scan_list, disp,
                   resolve_failed, boot>>

\* lines 380-381: the delay before the file is moved or deleted
PostPrintDelay(t) ==
    /\ run[t].pc = "post_delay"
    /\ run' = [run EXCEPT ![t] = [Log(@, "post_delay") EXCEPT !.pc = "after"]]
    /\ UNCHANGED <<config, files, archive, now, arrivals, processed_files, queue,
                   observer_started, main_pc, scan_i, scan_globbed, scan_list,
                   printed_ok, submitted, disp,
                   resolve_failed, boot>>

\* lines 383-384: the print succeeded; line 411 reads the clock, which has
\* not gone back since it was last read
Resolve(t) ==
    /\ run[t].pc = "after"
    /\ run[t].success
    /\ \E op_raises \in BOOLEAN, clock \in now..MaxClock :
         LET r   == run[t]
             res == handle_after_print(config, files, archive, clock, r.path,
                                       op_raises)
         IN  /\ files' = res.files
             /\ archive' = res.archive
             /\ now' = IF ~config.delete_after_print /\ config.move_after_print
                       THEN clock ELSE now
             /\ run' = [run EXCEPT ![t] =
                   [(IF res.failed THEN Log(Log(r, "resolve"), "resolve_error")
                                   ELSE Log(r, "resolve"))
                    EXCEPT !.pc = "ret", !.outcome = "printed"]]
             /\ resolve_failed' = IF res.failed THEN resolve_failed \cup {r.path}
                                  ELSE resolve_failed
    /\ UNCHANGED <<config, arrivals, processed_files, queue, observer_started,
                   main_pc, scan_i, scan_globbed, scan_list, printed_ok, submitted, disp,
                   boot>>

\* Evict with the discard of line 388 left out
EvictKept(t) ==
    /\ run[t].pc = "after"
    /\ ~run[t].success
    /\ run' = [run EXCEPT ![t] =
           [Log(@, "evict") EXCEPT !.pc = "ret", !.outcome = "print_failed"]]
    /\ UNCHANGED <<config, files, archive, now, arrivals, processed_files, queue,
                   observer_started, main_pc, scan_i, scan_globbed, scan_list,
                   printed_ok, submitted, disp, resolve_failed, boot>>

\* lines 385-388: the print failed
Evict(t) ==
    /\ run[t].pc = "after"
    /\ ~run[t].success
    /\ processed_files' = processed_files \ {run[t].path}
    /\ run' = [run EXCEPT ![t] =
           [Log(@, "evict") EXCEPT !.pc = "ret", !.outcome = "print_failed"]]
    /\ UNCHANGED <<config, files, archive, now, arrivals, queue, observer_started,
                   main_pc, scan_i, scan_globbed, scan_list, printed_ok, submitted, disp,
                   resolve_failed, boot>>

\* the steps of the try body in which a call can raise what it does not
\* itself catch: is_file_ready, which catches IOError and OSError only, and
\* the two delays (the comparison with 0 and time.sleep raise on a value of
\* the configuration that is not a number).  print_pdf and
\* handle_after_print catch every Exception themselves.
RaisingSteps == {"ready", "ready_sleep", "settle", "post_delay"}

\* Raise without the except branch of lines 390-392: the exception leaves
\* process_file, and ends the scan or the thread that dispatches events
RaiseUncaught(t) ==
    /\ run[t].pc \in RaisingSteps
    /\ run' = [run EXCEPT ![t] =
           [Log(@, "error") EXCEPT !.pc = "ret", !.outcome = "error"]]
    /\ main_pc' = IF t = "main" THEN "exit" ELSE main_pc
    /\ observer_started' = IF t = "observer" THEN FALSE ELSE observer_started
    /\ UNCHANGED <<config, files, archive, now, arrivals, processed_files, queue,
                   scan_i, scan_globbed, scan_list, printed_ok, submitted, disp,
                   resolve_failed, boot>>

\* lines 390-392: an exception in the try body is logged and the path is
\* discarded from processed_files
Raise(t) ==
    /\ run[t].pc \in RaisingSteps
    /\ processed_files' = processed_files \ {run[t].path}
    /\ run' = [run EXCEPT ![t] =
           [Log(@, "error") EXCEPT !.pc = "ret", !.outcome = "error"]]
    /\ UNCHANGED <<config, files, archive, now, arrivals, queue, observer_started,
                   main_pc, scan_i, scan_globbed, scan_list, printed_ok, submitted, disp,
                   resolve_failed, boot>>

\* process_file returns to its caller
Return(t) ==
    /\ run[t].pc = "ret"
    /\ run' = [run EXCEPT ![t] = IdleRun]
    /\ UNCHANGED <<config, files, archive, now, arrivals, processed_files, queue,
                   observer_started, main_pc, scan_i, scan_globbed, scan_list,
                   printed_ok, submitted, disp,
                   resolve_failed, boot>>

(***************************************************************************)
(* The main thread, lines 494-503: process_existing_files, lines 422-436,  *)
(* then observer.start().                                                  *)
(***************************************************************************)
\* line 429: glob lists the folder for the current extension
ScanGlob ==
    /\ main_pc = "scan"
    /\ ~scan_globbed
    /\ scan_i <= Len(config.file_extensions)
    /\ scan_list' = Glob(files, config.file_extensions[scan_i])
    /\ scan_globbed' = TRUE
    /\ UNCHANGED <<config, files, archive, now, arrivals, processed_files, queue,
                   observer_started, main_pc, scan_i, run, printed_ok, submitted, disp,
                   resolve_failed, boot>>

\* lines 429-436: the next entry of the listing (in no particular order)
ScanVisit ==
    /\ main_pc = "scan"
    /\ scan_globbed
    /\ run["main"].pc = "idle"
    /\ \E n \in scan_list :
         /\ scan_list' = scan_list \ {n}
         /\ IF ScanAccepts(config, files, n)
            THEN StartRun("main", JoinPath(config.watch_folder, n))
            ELSE UNCHANGED run
    /\ UNCHANGED <<config, files, archive, now, arrivals, processed_files, queue,
                   observer_started, main_pc, scan_i, scan_globbed, printed_ok, submitted,
                   disp,
                   resolve_failed, boot>>

\* line 428: the listing is exhausted, on to the next extension
ScanNextExt ==
    /\ main_pc = "scan"
    /\ scan_globbed
    /\ scan_list = {}
    /\ run["main"].pc = "idle"
    /\ scan_i' = scan_i + 1
    /\ scan_globbed' = FALSE
    /\ UNCHANGED <<config, files, archive, now, arrivals, processed_files, queue,
                   observer_started, main_pc, scan_list, run, printed_ok, submitted, disp,
                   resolve_failed, boot>>

\* process_existing_files returns, line 500
ScanEnd ==
    /\ main_pc = "scan"
    /\ ~scan_globbed
    /\ scan_i > Len(config.file_extensions)
    /\ main_pc' = "start_observer"
    /\ UNCHANGED <<config, files, archive, now, arrivals, processed_files, queue,
                   observer_started, scan_i, scan_globbed, scan_list, run,
                   printed_ok, submitted, disp,
                   resolve_failed, boot>>

\* StartObserver with observer.start() moved before the scan of line 500:
\* events are delivered while the scan is still running
StartObserverEarly ==
    /\ main_pc \in {"scan", "start_observer"}
    /\ ~observer_started
    /\ observer_started' = TRUE
    /\ main_pc' = IF main_pc = "start_observer" THEN "watching" ELSE main_pc
    /\ UNCHANGED <<config, files, archive, now, arrivals, processed_files, queue,
                   scan_i, scan_globbed, scan_list, run, printed_ok, submitted,
                   disp, resolve_failed, boot>>

\* line 503: from now on creations in the folder are reported
StartObserver ==
    /\ main_pc = "start_observer"
    /\ observer_started' = TRUE
    /\ main_pc' = "watching"
    /\ UNCHANGED <<config, files, archive, now, arrivals, processed_files, queue,
                   scan_i, scan_globbed, scan_list, run, printed_ok, submitted, disp,
                   resolve_failed, boot>>

(***************************************************************************)
(* The observer thread: it dispatches the queued events one at a time to   *)
(* on_created, lines 340-357.                                              *)
(***************************************************************************)
OnCreated ==
    /\ observer_started
    /\ queue # <<>>
    /\ run["observer"].pc = "idle"
    /\ queue' = Tail(queue)
    /\ IF OnCreatedDecision(config, processed_files, Head(queue)) = "process"
       THEN StartRun("observer", Head(queue).src_path)
       ELSE UNCHANGED run
    /\ UNCHANGED <<config, files, archive, now, arrivals, processed_files,
                   observer_started, main_pc, scan_i, scan_globbed, scan_list,
                   printed_ok, submitted, disp,
                   resolve_failed, boot>>

(***************************************************************************)
(* The world around the program: other programs put files and folders into *)
(* the watch folder, write to them and take them away.                     *)
(***************************************************************************)
\* the observer reports a creation once it has been started
Report(name, is_directory) ==
    IF observer_started
    THEN queue' = Append(queue, [src_path |-> JoinPath(config.watch_folder, name),
                                 is_directory |-> is_directory])
    ELSE UNCHANGED queue

\* a new file appears under a name that is free
EnvCreate ==
    /\ arrivals < MaxArrivals
    /\ arrivals' = arrivals + 1
    /\ \E n \in FileNames, size \in 0..MaxSize :
         /\ files[n].kind = "none"
         /\ files' = [files EXCEPT ![n] = [kind |-> "file", size |-> size,
                                         id |-> arrivals + 1]]
         /\ Report(n, FALSE)
    /\ UNCHANGED <<config, archive, now, processed_files, observer_started,
                   main_pc, scan_i, scan_globbed, scan_list, run, printed_ok, submitted,
                   disp,
                   resolve_failed, boot>>

\* a file is replaced by a new file of the same name
EnvReplace ==
    /\ arrivals < MaxArrivals
    /\ arrivals' = arrivals + 1
    /\ \E n \in FileNames, size \in 0..MaxSize :
         /\ files[n].kind = "file"
         /\ files' = [files EXCEPT ![n] = [kind |-> "file", size |-> size,
                                         id |-> arrivals + 1]]
         /\ Report(n, FALSE)
    /\ UNCHANGED <<config, archive, now, processed_files, observer_started,
                   main_pc, scan_i, scan_globbed, scan_list, run, printed_ok, submitted,
                   disp,
                   resolve_failed, boot>>

EnvMkdir ==
    /\ arrivals < MaxArrivals
    /\ arrivals' = arrivals + 1
    /\ \E n \in DirNames :
         /\ files[n].kind = "none"
         /\ files' = [files EXCEPT ![n] = [kind |-> "dir", size |-> 0,
                                         id |-> arrivals + 1]]
         /\ Report(n, TRUE)
    /\ UNCHANGED <<config, archive, now, processed_files, observer_started,
                   main_pc, scan_i, scan_globbed, scan_list, run, printed_ok, submitted,
                   disp,
                   resolve_failed, boot>>

EnvWrite ==
    /\ \E n \in FileNames :
         /\ files[n].kind = "file"
         /\ files[n].size < MaxSize
         /\ files' = [files EXCEPT ![n].size = @ + 1]
    /\ UNCHANGED <<config, archive, now, arrivals, processed_files, queue,
                   observer_started, main_pc, scan_i, scan_globbed, scan_list,
                   run, printed_ok, submitted, disp,
                   resolve_failed, boot>>

EnvRemove ==
    /\ \E n \in Names :
         /\ files[n].kind # "none"
         /\ files' = [files EXCEPT ![n] = NoFile]
    /\ UNCHANGED <<config, archive, now, arrivals, processed_files, queue,
                   observer_started, main_pc, scan_i, scan_globbed, scan_list,
                   run, printed_ok, submitted, disp,
                   resolve_failed, boot>>

(***************************************************************************)
(* The program from the moment main has validated its configuration, with  *)
(* the watch folder still empty: what is in the folder when the scan lists *)
(* it arrived before that.                                                 *)
(***************************************************************************)
Init ==
    /\ config \in Configs
    /\ files = [n \in Names |-> NoFile]
    /\ archive = {}
    /\ now = 0
    /\ arrivals = 0
    /\ processed_files = {}
    /\ queue = <<>>
    /\ observer_started = FALSE
    /\ main_pc = "scan"
    /\ scan_i = 1
    /\ scan_globbed = FALSE
    /\ scan_list = {}
    /\ run = [t \in Threads |-> IdleRun]
    /\ printed_ok = {}
    /\ submitted = {}
    /\ resolve_failed = {}
    /\ boot = BootedUp(config)
    /\ disp = IdleDisp

ProcessFile(t) ==
    \/ ReadyOpen(t)
    \/ ReadySize(t)
    \/ SettleDelay(t)
    \/ MarkProcessed(t)
    \/ Dispatch(t)
    \/ PostPrintDelay(t)
    \/ Resolve(t)
    \/ Evict(t)
    \/ Raise(t)
    \/ Return(t)

Next ==
    \/ ScanGlob
    \/ ScanVisit
    \/ ScanNextExt
    \/ ScanEnd
    \/ StartObserver
    \/ OnCreated
    \/ \E t \in Threads : ProcessFile(t)
    \/ EnvCreate
    \/ EnvReplace
    \/ EnvMkdir
    \/ EnvWrite
    \/ EnvRemove

Spec == Init /\ [][Next]_vars

(***************************************************************************)
(* main from its start, lines 474-497: Config.load and Config.validate,    *)
(* then the pipeline.                                                      *)
(***************************************************************************)
InitStartup ==
    /\ boot \in Boots
    /\ config = DefaultConfig
    /\ files = [n \in Names |-> NoFile]
    /\ archive = {}
    /\ now = 0
    /\ arrivals = 0
    /\ processed_files = {}
    /\ queue = <<>>
    /\ observer_started = FALSE
    /\ main_pc = "load"
    /\ scan_i = 1
    /\ scan_globbed = FALSE
    /\ scan_list = {}
    /\ run = [t \in Threads |-> IdleRun]
    /\ printed_ok = {}
    /\ submitted = {}
    /\ resolve_failed = {}
    /\ disp = IdleDisp

\* lines 474-477 and Config.load, lines 56-88: SystemExit when the file is
\* missing or is not JSON, and main returns
Load ==
    /\ main_pc = "load"
    /\ IF boot.config_file = "ok"
       THEN config' = boot.data /\ main_pc' = "validate"
       ELSE config' = config /\ main_pc' = "exit"
    /\ UNCHANGED <<files, archive, now, arrivals, processed_files, queue,
                   observer_started, scan_i, scan_globbed, scan_list, run,
                   printed_ok, submitted, disp, resolve_failed, boot>>

\* Config.validate, lines 111-130
validate(cfg, b) ==
    IF cfg.watch_folder = <<>> THEN FALSE
    ELSE IF ~b.watch_isdir THEN FALSE
    ELSE IF /\ cfg.print_method = "acrobat"
            /\ (b.acrobat_path = "" \/ ~b.acrobat_isfile) THEN FALSE
    ELSE TRUE

\* Validate with the return of lines 480-482 left out
ValidateIgnored ==
    /\ main_pc = "validate"
    /\ main_pc' = "scan"
    /\ UNCHANGED <<config, files, archive, now, arrivals, processed_files, queue,
                   observer_started, scan_i, scan_globbed, scan_list, run,
                   printed_ok, submitted, disp, resolve_failed, boot>>

\* lines 479-497: main returns when validate fails, and otherwise creates
\* the handler and the observer and goes on to the scan
Validate ==
    /\ main_pc = "validate"
    /\ main_pc' = IF validate(config, boot) THEN "scan" ELSE "exit"
    /\ UNCHANGED <<config, files, archive, now, arrivals, processed_files, queue,
                   observer_started, scan_i, scan_globbed, scan_list, run,
                   printed_ok, submitted, disp, resolve_failed, boot>>

NextStartup == Load \/ Validate \/ Next

SpecStartup == InitStartup /\ [][NextStartup]_vars

(***************************************************************************)
(* The Print Dispatcher on its own: print_pdf called over and over, under  *)
(* every print method and printer name, with every answer of the system.   *)
(* disp.after is the system default printer.                               *)
(***************************************************************************)
DispatchConfigs ==
    { [MakeConfig(<< <<".", "p">> >>, FALSE, TRUE, pr) EXCEPT
           !.print_method = m, !.printer_name = p] :
      pr \in Profiles, m \in {"acrobat", "shellexecute"},
      p \in Printers \cup {""} }

InitDispatch ==
    /\ config \in DispatchConfigs
    /\ files = [n \in Names |-> NoFile]
    /\ archive = {}
    /\ now = 0
    /\ arrivals = 0
    /\ processed_files = {}
    /\ queue = <<>>
    /\ observer_started = FALSE
    /\ main_pc = "scan"
    /\ scan_i = 1
    /\ scan_globbed = FALSE
    /\ scan_list = {}
    /\ run = [t \in Threads |-> IdleRun]
    /\ printed_ok = {}
    /\ submitted = {}
    /\ resolve_failed = {}
    /\ boot = BootedUp(config)
    /\ disp \in {[IdleDisp EXCEPT !.after = d] : d \in Defaults}

\* one call of print_pdf, line 377
DispatcherCall ==
    /\ \E file_exists \in BOOLEAN, acrobat_isfile \in BOOLEAN, o \in Oracles :
         LET res == print_pdf(file_exists, config, acrobat_isfile, disp.after, o)
         IN  disp' = [called |-> TRUE, file_exists |-> file_exists,
                      acrobat_isfile |-> acrobat_isfile, o |-> o,
                      before |-> disp.after, after |-> res.after,
                      ret |-> res.ret, raised |-> res.raised,
                      used |-> res.used, restore_failed |-> res.restore_failed]
    /\ UNCHANGED <<config, files, archive, now, arrivals, processed_files,
                   queue, observer_started, main_pc, scan_i, scan_globbed,
                   scan_list, run, printed_ok, submitted, resolve_failed, boot>>

NextDispatch == DispatcherCall

SpecDispatch == InitDispatch /\ [][NextDispatch]_vars

(***************************************************************************)
(* The properties checked.                                                 *)
(***************************************************************************)
Took(r, step) == \E i \in 1..Len(r.steps) : r.steps[i] = step

\* C1: in a call of process_file in which is_file_ready returned False, the
\* dispatcher is not invoked, neither delay nor the resolver runs, the path
\* is not added to processed_files, and processed_files is what it was when
\* the call began.
C1_NotReadyNotPrinted ==
    \A t \in Threads :
        run[t].ready = "no" =>
            /\ run[t].pc = "ret"
            /\ ~Took(run[t], "mark")
            /\ ~Took(run[t], "print")
            /\ ~Took(run[t], "settle")
            /\ ~Took(run[t], "post_delay")
            /\ ~Took(run[t], "resolve")
            /\ processed_files = run[t].pre

\* a live arrival that exists but never became stable has been given up
C1_Witness ==
    /\ run["observer"].ready = "no"
    /\ run["observer"].pc = "ret"
    /\ FileOf(run["observer"].path).kind = "file"
    /\ run["observer"].path \notin processed_files

\* C2: once print_pdf has returned True for a path, that path is never
\* handed to print_pdf again, by the startup scan or by a creation event.
C2_PrintedOnce ==
    [][ \A t \in Threads :
          (run[t].pc = "print" /\ run'[t].pc # "print")
              => run[t].path \notin printed_ok ]_vars

\* C3: when print_pdf has returned False, at the end of the call the path is
\* not in processed_files, handle_after_print was not called, and a creation
\* event for the same path starts process_file again.
C3_FailedPrintRetried ==
    \A t \in Threads :
        (run[t].pc = "ret" /\ run[t].outcome = "print_failed") =>
            /\ run[t].path \notin processed_files
            /\ ~Took(run[t], "resolve")
            /\ OnCreatedDecision(config, processed_files,
                                 [src_path |-> run[t].path,
                                  is_directory |-> FALSE]) = "process"

\* the part of a call of process_file in which its path is claimed: from
\* the mark to the end of the call
Claimed(t) == run[t].pc \in {"print", "post_delay", "after"}

\* C4: the path is in processed_files when print_pdf is called for it, and
\* while a call holds a path claimed no other call for the same path is
\* anywhere between its own mark and its end.
C4_ClaimedBeforePrint ==
    /\ \A t \in Threads : run[t].pc = "print" => run[t].path \in processed_files
    /\ \A t, u \in Threads :
         (t # u /\ Claimed(t) /\ Claimed(u)) => run[t].path # run[u].path

\* print_pdf is about to be called for a path while a further creation event
\* for the same path is waiting
C4_Witness ==
    /\ run["observer"].pc = "print"
    /\ run["observer"].path \in processed_files
    /\ queue # <<>>
    /\ Head(queue).src_path = run["observer"].path

\* the step in which on_created takes the next event
OnCreatedStep ==
    /\ observer_started
    /\ queue # <<>>
    /\ run["observer"].pc = "idle"
    /\ queue' = Tail(queue)

\* the step in which the scan visits entry n of its listing
ScanVisitStep(n) ==
    /\ main_pc = "scan"
    /\ scan_globbed
    /\ n \in scan_list
    /\ scan_list' = scan_list \ {n}

\* C5: an arrival of a file whose extension is not one of file_extensions,
\* and a creation event for a folder, starts no call of process_file and
\* changes nothing: no probe, no print, no move or delete.
C5_UnrecognizedIgnored ==
    [][ /\ (OnCreatedStep /\ (\/ Head(queue).is_directory
                              \/ ~Recognized(config, Head(queue).src_path)))
            => UNCHANGED <<run, processed_files, files, archive, printed_ok,
                           submitted>>
        /\ \A n \in Names :
             (ScanVisitStep(n)
              /\ ~Recognized(config, JoinPath(config.watch_folder, n)))
                 => UNCHANGED <<run, processed_files, files, archive,
                                printed_ok, submitted>> ]_vars

\* C6: a creation event for a file with a recognized extension that is
\* complete and has not been handed to print_pdf starts process_file,
\* whatever was printed before under the same path.
C6_EveryArrivalPrinted ==
    [][ OnCreatedStep =>
          LET event == Head(queue)
              f     == FileOf(event.src_path)
          IN  ( /\ ~event.is_directory
                /\ Recognized(config, event.src_path)
                /\ f.kind = "file"
                /\ f.size > 0
                /\ f.id \notin submitted )
              => ( /\ run'["observer"].pc = "ready"
                   /\ run'["observer"].path = event.src_path ) ]_vars

\* the step in which handle_after_print runs in thread t
ResolveStep(t) == run[t].pc = "after" /\ run[t].success /\ run'[t].pc = "ret"

\* <watch_folder>/<printed_folder>/<name>_<timestamp><ext>, name and ext being
\* the two halves os.path.splitext gives for the file name
ArchivedAs(path, clock) ==
    LET parts == Splitext(Basename(path))
    IN  config.watch_folder \o <<Sep>> \o config.printed_folder \o <<Sep>>
        \o parts.root \o <<"_">> \o Strftime(clock) \o parts.ext

\* what C7 says of a step of handle_after_print on path
RetentionApplied(path) ==
    LET name == Basename(path)
    IN  IF config.delete_after_print
        THEN files'[name].kind = "none" /\ archive' = archive
        ELSE IF config.move_after_print
        THEN /\ files'[name].kind = "none"
             /\ \E clock \in 0..MaxClock, e \in archive' :
                    e.path = ArchivedAs(path, clock)
        ELSE files' = files /\ archive' = archive

C8_ScanProcessesAll ==
    [][ \A n \in Names :
          (ScanVisitStep(n) /\ files[n].kind = "file")
              => ( /\ run'["main"].pc = "ready"
                   /\ run'["main"].path = JoinPath(config.watch_folder, n) ) ]_vars

\* the printer a dispatcher call resolves to: printer_name, or the system
\* default when printer_name is empty
Resolvable == config.printer_name # "" \/ disp.before # NoPrinter

LaunchFailed ==
    IF config.print_method = "acrobat"
    THEN disp.o.popen_raises
    ELSE disp.o.setdef_raises \/ disp.o.shell_raises

\* C9: a call of the dispatcher never raises, under either print method; it
\* returns False when the file is missing, when the Acrobat executable is
\* missing, when printer_name is empty and there is no default printer, and
\* when launching the job fails; it returns True only when the launch went
\* through without error; with an empty printer_name and a default printer
\* the job goes to the default printer.
C9_DispatcherNeverRaises ==
    disp.called =>
        /\ ~disp.raised
        /\ ~disp.file_exists => ~disp.ret
        /\ (config.print_method = "acrobat" /\ ~disp.acrobat_isfile) => ~disp.ret
        /\ ~Resolvable => ~disp.ret
        /\ LaunchFailed => ~disp.ret
        /\ disp.ret => /\ disp.file_exists
                       /\ config.print_method = "acrobat" => disp.acrobat_isfile
                       /\ Resolvable
                       /\ ~LaunchFailed
        /\ (disp.ret /\ config.printer_name = "" /\ disp.before # NoPrinter)
               => disp.used = disp.before

\* Popen raised in a call that had passed every check, and False came back
C9_Witness ==
    /\ disp.called
    /\ config.print_method = "acrobat"
    /\ disp.file_exists
    /\ disp.acrobat_isfile
    /\ Resolvable
    /\ disp.o.popen_raises
    /\ ~disp.ret
    /\ ~disp.raised

ShellCall == disp.called /\ config.print_method = "shellexecute"

DispatchStep(t) == run[t].pc = "print" /\ run'[t].pc # "print"

\* C11: when the remove or the move of handle_after_print fails after a
\* successful print, process_file ends as after any successful print (no
\* exception, the path still in processed_files), and from then on no
\* arrival of that path, by the scan or by a creation event, hands it to
\* print_pdf again.
C11_ResolveFailureNotRetried ==
    [][ /\ \A t \in Threads :
             (ResolveStep(t) /\ Took(run'[t], "resolve_error"))
                 => /\ run'[t].outcome = "printed"
                    /\ run[t].path \in processed_files'
        /\ \A t \in Threads :
             DispatchStep(t) => run[t].path \notin resolve_failed ]_vars

ScanRecognized(cfg, name) ==
    \E i \in 1..Len(cfg.file_extensions) : GlobMatch(cfg.file_extensions[i], name)

\* C13: the startup scan and on_created recognize the same files: a name is
\* listed by one of the scan's patterns exactly when its extension, letter
\* case ignored, is one of file_extensions.
C13_SameRecognition ==
    \A n \in FileNames :
        ScanRecognized(config, n)
            <=> Recognized(config, JoinPath(config.watch_folder, n))

\* what C14 lists: no configuration file, one that is not JSON, no watch
\* folder or one that is not a directory, acrobat without an executable
BadStartup ==
    \/ boot.config_file \in {"missing", "invalid"}
    \/ boot.data.watch_folder = <<>>
    \/ ~boot.watch_isdir
    \/ (boot.data.print_method = "acrobat"
        /\ (boot.acrobat_path = "" \/ ~boot.acrobat_isfile))

\* C14: with such a startup main never reaches the pipeline: no scan, no
\* observer, no call of process_file, nothing printed, moved or deleted.
C14_BadStartupNoPipeline ==
    BadStartup =>
        /\ main_pc \in {"load", "validate", "exit"}
        /\ ~observer_started
        /\ \A t \in Threads : run[t] = IdleRun
        /\ processed_files = {}
        /\ submitted = {}
        /\ printed_ok = {}
        /\ archive = {}

\* main has returned after a failed validate although a file to print lies
\* in the watch folder
C14_Witness ==
    /\ BadStartup
    /\ boot.config_file = "ok"
    /\ main_pc = "exit"
    /\ files[<<"a", ".", "p">>].kind = "file"

\* the step in which handle_after_print moves the file of thread t into the
\* printed folder
MoveStep(t) ==
    /\ ResolveStep(t)
    /\ ~config.delete_after_print
    /\ config.move_after_print
    /\ ~Took(run'[t], "resolve_error")

\* C15: when a file is archived, every archived copy of a file of the same
\* name that was archived at another second keeps its place: the new copy
\* lies under a path of its own, and the folder has one file more.
C15_ArchiveNamesDistinct ==
    [][ \A t \in Threads :
          MoveStep(t) =>
            LET path == run[t].path
                new  == [path |-> ArchivedAs(path, now'),
                         id   |-> FileOf(path).id]
                old  == {e \in archive :
                           \E c \in 0..MaxClock :
                               c # now' /\ e.path = ArchivedAs(path, c)}
            IN  /\ new \in archive'
                /\ old \subseteq archive'
                /\ \A e \in old : e.path # new.path
          ]_vars

\* two files of the same name lie in the printed folder, archived at
\* different seconds
C15_Witness ==
    \E e1, e2 \in archive :
        /\ e1.id # e2.id
        /\ \E n \in FileNames, c1, c2 \in 0..MaxClock :
             /\ c1 # c2
             /\ e1.path = ArchivedAs(JoinPath(config.watch_folder, n), c1)
             /\ e2.path = ArchivedAs(JoinPath(config.watch_folder, n), c2)

\* the steps of a call of process_file whose file is ready, in the order of
\* lines 369-388; a delay of 0 seconds is no step
ExpectedSteps(cfg, success) ==
    (IF cfg.print_delay_seconds > 0 THEN <<"settle">> ELSE <<>>)
    \o <<"mark", "print">>
    \o (IF cfg.move_delete_delay_seconds > 0 THEN <<"post_delay">> ELSE <<>>)
    \o <<IF success THEN "resolve" ELSE "evict">>

IsPipelineStep(step) == step \notin {"not_ready", "resolve_error", "error"}

\* C16: a call whose file is ready takes its steps in the order settle
\* delay, mark, print, post-print delay, then resolve after a successful
\* print and evict after a failed one; the post-print delay comes after
\* either result, and handle_after_print is not reached before it is over.
C16_StepOrder ==
    \A t \in Threads :
        LET r     == run[t]
            taken == SelectSeq(r.steps, IsPipelineStep)
            all   == ExpectedSteps(config, r.success)
        IN  /\ Len(taken) <= Len(all)
            /\ taken = SubSeq(all, 1, Len(taken))
            /\ taken # <<>> => r.ready = "yes"
            /\ r.outcome \in {"printed", "print_failed"} => taken = all

\* a failed print after which the post-print delay was taken and the path
\* evicted
C16_Witness ==
    \E t \in Threads :
        /\ run[t].outcome = "print_failed"
        /\ config.print_delay_seconds > 0
        /\ config.move_delete_delay_seconds > 0
        /\ run[t].steps = <<"settle", "mark", "print", "post_delay", "evict">>

InFlight(t) == run[t].pc # "idle"

\* C17: at most one call of process_file is in progress at any time, the
\* scan has at most one file in progress, and no creation event is handled,
\* or even delivered, before the scan has finished.
C17_OneAtATime ==
    /\ \A t, u \in Threads : t # u => ~(InFlight(t) /\ InFlight(u))
    /\ InFlight("main") => main_pc = "scan"
    /\ InFlight("observer") => main_pc = "watching"
    /\ main_pc \in {"scan", "start_observer"}
           => (~observer_started /\ queue = <<>>)

\* a creation event waits while the call for an earlier event is printing
C17_Witness ==
    /\ run["observer"].pc = "print"
    /\ queue # <<>>
    /\ Head(queue).src_path # run["observer"].path
    /\ ~Head(queue).is_directory

\* C18 as stated: every path in processed_files has had a call of print_pdf
\* that returned True.
C18_OnlyAfterSuccess == processed_files \subseteq printed_ok

\* C18 amended: a path is put into processed_files before print_pdf is
\* called for it; every path in processed_files either has had a call of
\* print_pdf that returned True or is the path of a call of process_file in
\* progress that has marked it and has not yet evicted it; once a call has
\* ended with a failed print its path is not in processed_files.
C18_MarkedOrPrinted ==
    /\ \A p \in processed_files :
         \/ p \in printed_ok
         \/ \E t \in Threads : Claimed(t) /\ run[t].path = p
    /\ \A t \in Threads :
         run[t].outcome = "print_failed" => run[t].path \notin processed_files

\* a path is in processed_files while print_pdf has not yet been called for
\* it
C18_Witness ==
    \E t \in Threads :
        /\ run[t].pc = "print"
        /\ run[t].path \in processed_files
        /\ run[t].path \notin printed_ok

\* a file appears under name n in this step
Appears(n) == files[n].kind = "none" /\ files'[n].kind = "file"

\* a glob the scan has still to list will list name n
ScanWillList(n) ==
    /\ main_pc = "scan"
    /\ \E i \in (IF scan_globbed THEN scan_i + 1 ELSE scan_i)
                    ..Len(config.file_extensions) :
           GlobMatch(config.file_extensions[i], n)

\* a creation event for name n is delivered in this step
EventQueued(n) ==
    /\ Len(queue') = Len(queue) + 1
    /\ queue'[Len(queue')].src_path = JoinPath(config.watch_folder, n)

\* C19: a file with a recognized extension that appears in the watch folder
\* at any moment after the start is picked up: by a glob the scan has yet to
\* list, or by a creation event.
C19_NoArrivalLost ==
    [][ \A n \in FileNames :
          (Appears(n) /\ Recognized(config, JoinPath(config.watch_folder, n)))
              => (ScanWillList(n) \/ EventQueued(n)) ]_vars

====
